---- MODULE Spec2Model ----
(***************************************************************************)
(* lxd-backup: quarterly full exports of LXD containers plus month, week   *)
(* and weekday deltas against the quarter export.  The model follows       *)
(* src/lxd-backup.go (the current version of the program, lines 412-910).  *)
(*                                                                         *)
(* Strings are sequences of one-character strings, so that formatting,     *)
(* sorting and the CSV encoding of the fingerprint file are computed and   *)
(* not assumed.  A date is a day number, day 0 being 2022-01-01.           *)
(***************************************************************************)
EXTENDS Integers, Sequences, FiniteSets, TLC

VARIABLES
    now,                \* main: time.Now() of the current run, a day number
    runs,               \* number of runs of the program started so far
    failures,           \* number of injected I/O or lxc failures so far
    pc,                 \* position of the program
    fs,                 \* the backup directory: file name -> content
    cont,               \* main: the container c being processed
    exportName,         \* main: exportName
    doDelta,            \* main: doDelta
    sums,               \* main: sums (fingerprints of the fresh export)
    quarterSums,        \* main: quarterSums (fingerprints of the baseline)
    filesChangedAdded,  \* main: filesChangedAdded (the keys of the map)
    filesRemoved,       \* main: filesRemoved (a slice)
    cmds,               \* lxc commands issued in the current run, in order
    calls,              \* createDeltaBackup calls of the current run
    bucket,             \* which of the three createDeltaBackup calls is next
    tarpos,             \* createDeltaBackup: members consumed from tarreader
    csvFile,            \* writeFileData: the bytes written to the file
    loaded,             \* loadFileData: its result
    date2,              \* a second date, for comparing bucket names
    names               \* the quarter names computed for now and date2

vars == <<now, runs, failures, pc, fs, cont, exportName, doDelta, sums,
          quarterSums, filesChangedAdded, filesRemoved, cmds, calls, bucket,
          tarpos, csvFile, loaded, date2, names>>

-----------------------------------------------------------------------------
(* Bounds *)

\* Longest member path of the tables given to writeFileData/loadFileData.
MaxPathLen == 2
\* Most paths in one such table.
MaxTableSize == 2
\* Runs of the program in one behaviour.
MaxRuns == 4
\* Failing steps (log.Fatalf exits) in one behaviour.
MaxFailures == 1
\* Last day number of the dates whose bucket names are compared.
MaxDay == 400

-----------------------------------------------------------------------------
(* Bytes and strings *)

\* The characters used, in ascending byte order.
Alphabet ==
    << "\n", "\r", " ", "\"", ",", ".", "/",
       "0", "1", "2", "3", "4", "5", "6", "7", "8", "9", "\\",
       "a", "b", "c", "d", "e", "f" >>

Ord(c) == CHOOSE i \in 1..Len(Alphabet) : Alphabet[i] = c

RECURSIVE StrLess(_, _)
\* s < t for Go strings: bytewise lexicographic order.
StrLess(s, t) ==
    IF t = <<>> THEN FALSE
    ELSE IF s = <<>> THEN TRUE
    ELSE IF Head(s) # Head(t) THEN Ord(Head(s)) < Ord(Head(t))
    ELSE StrLess(Tail(s), Tail(t))

RECURSIVE SortStrings(_)
\* sort.Strings on the elements of a set of distinct strings.
SortStrings(S) ==
    IF S = {} THEN <<>>
    ELSE LET m == CHOOSE x \in S : \A y \in S \ {x} : StrLess(x, y)
         IN  <<m>> \o SortStrings(S \ {m})

\* Index of the first occurrence of character c in s, 0 when there is none.
IndexOf(s, c) ==
    IF \E i \in 1..Len(s) : s[i] = c
    THEN CHOOSE i \in 1..Len(s) : s[i] = c /\ \A j \in 1..(i-1) : s[j] # c
    ELSE 0

RECURSIVE Concat(_)
Concat(ss) == IF ss = <<>> THEN <<>> ELSE Head(ss) \o Concat(Tail(ss))

-----------------------------------------------------------------------------
(* encoding/csv as used by writeFileData and loadFileData: Comma ',',       *)
(* UseCRLF false, LazyQuotes false, Comment unset, FieldsPerRecord 0.       *)

\* csv.Writer.fieldNeedsQuotes
FieldNeedsQuotes(field) ==
    IF field = <<>> THEN FALSE
    ELSE IF field = << "\\", "." >> THEN TRUE
    ELSE IF \E i \in 1..Len(field) : field[i] \in {"\n", "\r", "\"", ","}
         THEN TRUE
    ELSE Head(field) \in {" ", "\n", "\r"}

RECURSIVE QuoteBody(_)
\* The loop of csv.Writer.Write over a field that needs quotes.
QuoteBody(field) ==
    IF field = <<>> THEN <<>>
    ELSE (IF Head(field) = "\"" THEN << "\"", "\"" >> ELSE << Head(field) >>)
         \o QuoteBody(Tail(field))

\* csv.Writer.Write of one field.
CsvField(field) ==
    IF FieldNeedsQuotes(field)
    THEN << "\"" >> \o QuoteBody(field) \o << "\"" >>
    ELSE field

\* csv.Writer.Write of a two-column record, with the line end.
CsvRecord(rec) == CsvField(rec[1]) \o << "," >> \o CsvField(rec[2]) \o << "\n" >>

\* csv.Writer.WriteAll
CsvWriteAll(fl) == Concat([i \in 1..Len(fl) |-> CsvRecord(fl[i])])

\* The bytes writeFileData writes for the table fd: the records in
\* ascending path order (sort.Strings), CSV-encoded.
FileDataBytes(fd) ==
    LET fdnames == SortStrings(DOMAIN fd)
        fl == [i \in 1..Len(fdnames) |-> << fdnames[i], fd[fdnames[i]] >>]
    IN  CsvWriteAll(fl)

\* csv.Reader's lengthNL
LengthNL(line) ==
    IF Len(line) > 0 /\ line[Len(line)] = "\n" THEN 1 ELSE 0

\* csv.Reader.readLine on the unread input: the line, what is left of the
\* input, and whether the read ended in io.EOF with nothing read.
ReadLine(inp) ==
    LET i    == IndexOf(inp, "\n")
        raw  == IF i = 0 THEN inp ELSE SubSeq(inp, 1, i)
        rest == IF i = 0 THEN <<>> ELSE SubSeq(inp, i + 1, Len(inp))
        l1   == IF i = 0 /\ Len(raw) > 0 /\ raw[Len(raw)] = "\r"
                THEN SubSeq(raw, 1, Len(raw) - 1) ELSE raw
        n    == Len(l1)
        l2   == IF n >= 2 /\ l1[n - 1] = "\r" /\ l1[n] = "\n"
                THEN SubSeq(l1, 1, n - 2) \o << "\n" >> ELSE l1
    IN  [line |-> l2, rest |-> rest, eof |-> (i = 0 /\ Len(raw) = 0)]

\* Op(x) with x evaluated once, before Op is applied.
Force(Op(_), x) == CHOOSE r \in {Op(v) : v \in {x}} : TRUE

\* The state of csv.Reader.readRecord inside its parseField loop: whether it
\* is inside a quoted field, the rest of the line, the input after the line,
\* the text of the quoted field so far, and the fields read.
ParseState(quoted, line, rest, acc, fields) ==
    [quoted |-> quoted, line |-> line, rest |-> rest, acc |-> acc,
     fields |-> fields]

RECURSIVE ParseFields(_)
\* csv.Reader.readRecord, the parseField loop over one record.
ParseFields(p) ==
    IF ~p.quoted
    THEN IF p.line = <<>> \/ Head(p.line) # "\""
         THEN \* Non-quoted string field
              LET i     == IndexOf(p.line, ",")
                  field == IF i > 0 THEN SubSeq(p.line, 1, i - 1)
                           ELSE SubSeq(p.line, 1, Len(p.line) - LengthNL(p.line))
              IN  IF IndexOf(field, "\"") > 0
                  THEN [err |-> "ErrBareQuote", fields |-> <<>>, rest |-> p.rest]
                  ELSE IF i > 0
                  THEN Force(ParseFields,
                             ParseState(FALSE, SubSeq(p.line, i + 1, Len(p.line)),
                                        p.rest, <<>>, Append(p.fields, field)))
                  ELSE [err |-> "", fields |-> Append(p.fields, field),
                        rest |-> p.rest]
         ELSE \* Quoted string field
              Force(ParseFields,
                    ParseState(TRUE, Tail(p.line), p.rest, <<>>, p.fields))
    ELSE LET i == IndexOf(p.line, "\"")
         IN  IF i > 0
             THEN \* Hit next quote
                  LET acc2 == p.acc \o SubSeq(p.line, 1, i - 1)
                      l2   == SubSeq(p.line, i + 1, Len(p.line))
                  IN  IF l2 # <<>> /\ Head(l2) = "\""
                      THEN Force(ParseFields,
                                 ParseState(TRUE, Tail(l2), p.rest,
                                            acc2 \o << "\"" >>, p.fields))
                      ELSE IF l2 # <<>> /\ Head(l2) = ","
                      THEN Force(ParseFields,
                                 ParseState(FALSE, Tail(l2), p.rest, <<>>,
                                            Append(p.fields, acc2)))
                      ELSE IF LengthNL(l2) = Len(l2)
                      THEN [err |-> "", fields |-> Append(p.fields, acc2),
                            rest |-> p.rest]
                      ELSE [err |-> "ErrQuote", fields |-> <<>>, rest |-> p.rest]
             ELSE IF Len(p.line) > 0
             THEN \* Hit end of line: the field goes on in the next line
                  Force(ParseFields,
                        ParseState(TRUE, ReadLine(p.rest).line, ReadLine(p.rest).rest,
                                   p.acc \o p.line, p.fields))
             ELSE \* Abrupt end of file
                  [err |-> "ErrQuote", fields |-> <<>>, rest |-> p.rest]

RECURSIVE SkipEmptyLines(_)
\* csv.Reader.readRecord, its first loop: the first line that is not empty,
\* as ReadLine returns it.
SkipEmptyLines(rl) ==
    IF ~rl.eof /\ Len(rl.line) = LengthNL(rl.line)
    THEN Force(SkipEmptyLines, ReadLine(rl.rest))
    ELSE rl

\* The parse of the line rl that SkipEmptyLines found.
RecordOfLine(rl) ==
    IF rl.eof THEN [err |-> "EOF", fields |-> <<>>, rest |-> <<>>]
    ELSE ParseFields(ParseState(FALSE, rl.line, rl.rest, <<>>, <<>>))

\* csv.Reader.readRecord: skips empty lines, then parses one record.
ReadRecord(inp) == Force(RecordOfLine, Force(SkipEmptyLines, ReadLine(inp)))

RECURSIVE ReadAllFrom(_)
\* csv.Reader.ReadAll after the records a.recs were read and record a.r is
\* read next; a.fieldsPerRecord is 0 until the first record sets it.
ReadAllFrom(a) ==
    IF a.r.err = "EOF" THEN [err |-> "", records |-> a.recs]
    ELSE IF a.r.err # "" THEN [err |-> a.r.err, records |-> <<>>]
    ELSE IF a.fieldsPerRecord > 0 /\ Len(a.r.fields) # a.fieldsPerRecord
    THEN [err |-> "ErrFieldCount", records |-> <<>>]
    ELSE Force(ReadAllFrom,
               [r |-> ReadRecord(a.r.rest), fieldsPerRecord |-> Len(a.r.fields),
                recs |-> Append(a.recs, a.r.fields)])

\* csv.Reader.ReadAll on the bytes of a file.
ReadAll(bytes) ==
    Force(ReadAllFrom, [r |-> ReadRecord(bytes), fieldsPerRecord |-> 0, recs |-> <<>>])

\* The map loadFileData builds from the records c of ReadAll: ok is FALSE
\* when it exits (log.Fatalf) or panics on a one-column record.  Later
\* records overwrite earlier ones of the same path.
ChecksumsOf(c) ==
    LET n == Len(c.records)
    IN  IF c.err # "" \/ \E i \in 1..n : Len(c.records[i]) < 2
        THEN [ok |-> FALSE, table |-> <<>>]
        ELSE [ok |-> TRUE,
              table |-> [k \in {c.records[i][1] : i \in 1..n} |->
                  c.records[CHOOSE i \in 1..n :
                      /\ c.records[i][1] = k
                      /\ \A j \in (i+1)..n : c.records[j][1] # k][2]]]

\* The table loadFileData returns for a file holding these bytes.
FileDataTable(bytes) == Force(ChecksumsOf, ReadAll(bytes))

-----------------------------------------------------------------------------
(* Package time: calendar fields of a day number (day 0 is 2022-01-01, a    *)
(* Saturday).                                                               *)

IsLeap(y) == (y % 4 = 0 /\ y % 100 # 0) \/ y % 400 = 0

DaysInYear(y) == IF IsLeap(y) THEN 366 ELSE 365

RECURSIVE YearStart(_)
\* Day number of January 1st of year y.
YearStart(y) ==
    IF y = 2022 THEN 0
    ELSE IF y > 2022 THEN YearStart(y - 1) + DaysInYear(y - 1)
    ELSE YearStart(y + 1) - DaysInYear(y)

\* time.Time.Year
YearOf(d) == CHOOSE y \in 2021..2040 : YearStart(y) <= d /\ d < YearStart(y + 1)

\* time.Time.YearDay, counted from 0
YDay(d) == d - YearStart(YearOf(d))

DaysInMonth(y, m) ==
    IF m = 2 THEN (IF IsLeap(y) THEN 29 ELSE 28)
    ELSE IF m \in {4, 6, 9, 11} THEN 30 ELSE 31

RECURSIVE MonthStart(_, _)
\* Days of year y before month m (m may be 13).
MonthStart(y, m) ==
    IF m = 1 THEN 0 ELSE MonthStart(y, m - 1) + DaysInMonth(y, m - 1)

\* time.Time.Month, January = 1
MonthOf(d) ==
    CHOOSE m \in 1..12 :
        MonthStart(YearOf(d), m) <= YDay(d) /\ YDay(d) < MonthStart(YearOf(d), m + 1)

\* time.Time.Day
DayOf(d) == YDay(d) - MonthStart(YearOf(d), MonthOf(d)) + 1

\* time.Time.Weekday, Sunday = 0
Weekday(d) == (d + 6) % 7

\* time.Time.ISOWeek, the week number: the year day (from 0) of the Thursday
\* of d's week, divided by 7, plus one.
ISOWeek(d) ==
    LET off == IF Weekday(d) = 0 THEN 0 - 3 ELSE 4 - Weekday(d)
    IN  (YDay(d + off) \div 7) + 1

RECURSIVE Decimal(_)
\* fmt's %d of a natural number.
Decimal(n) ==
    IF n < 10 THEN << Alphabet[Ord("0") + n] >>
    ELSE Decimal(n \div 10) \o << Alphabet[Ord("0") + (n % 10)] >>

-----------------------------------------------------------------------------
(* File names of one container in the backup directory.  A name is           *)
(* <<kind, key, suffix>>: kind and suffix stand for the fixed text of the   *)
(* format string, key is the formatted variable part.                       *)

\* quarter := fmt.Sprintf("-Q%d%d.tar.zst", now.Year(), now.Month()/4)
QuarterName(d) == << "Q", Decimal(YearOf(d)) \o Decimal(MonthOf(d) \div 4), "" >>

\* monthDelta := fmt.Sprintf("-M%d-delta.tar.zst", now.Month())
MonthDeltaName(d) == << "M", Decimal(MonthOf(d)), "" >>

\* weekDelta := fmt.Sprintf("-WN%d-delta.tar.zst", w%4)
WeekDeltaName(d) == << "WN", Decimal(ISOWeek(d) % 4), "" >>

\* dayDelta := fmt.Sprintf("-WD%d-delta.tar.zst", now.Weekday())
DayDeltaName(d) == << "WD", Decimal(Weekday(d)), "" >>

\* fmt.Sprintf("lxd-temporary-backup-%d.tar.zstd", time.Now().UnixNano()):
\* the clock differs from run to run, the run number stands for it.
TemporaryName(n) == << "tmp", Decimal(n), "" >>

\* lxdBackupPrefix + c.name + ".log"
LogName == << "log", <<>>, "" >>

\* name + suffix, for ".md5sum", ".removed" and "." + profileName + ".profile"
Sibling(name, suffix) == << name[1], name[2], suffix >>

ProfileSuffix(profileName) == "." \o profileName \o ".profile"

-----------------------------------------------------------------------------
(* main, lines 860-879: the diff of the fresh fingerprints against the      *)
(* baseline's.                                                              *)

\* First loop, digest differs: filesChangedAdded[fname] = true
ChangedSinceQuarter(q, s) ==
    {fname \in DOMAIN q : fname \in DOMAIN s /\ s[fname] # q[fname]}

\* First loop, not present in sums: appended to filesRemoved
RemovedSinceQuarter(q, s) == {fname \in DOMAIN q : fname \notin DOMAIN s}

\* A faulty variant of the second loop: it looks the name up in the wrong map,
\* so no file is ever found to be new.
NewSinceQuarterWrongMap(q, s) == {fname \in DOMAIN s : fname \notin DOMAIN s}

\* Second loop: filesChangedAdded[fname] = true
NewSinceQuarter(q, s) == {fname \in DOMAIN s : fname \notin DOMAIN q}

\* The keys of filesChangedAdded after both loops.
ChangedAddedKeys(q, s) == ChangedSinceQuarter(q, s) \cup NewSinceQuarter(q, s)

RECURSIVE Orderings(_)
\* The orders in which ranging over a Go map can visit the keys S.
Orderings(S) ==
    IF S = {} THEN {<<>>}
    ELSE UNION {{<<x>> \o t : t \in Orderings(S \ {x})} : x \in S}

Range(seq) == {seq[i] : i \in 1..Len(seq)}

-----------------------------------------------------------------------------
(* Archives and files *)

\* A tar member: hdr.Name, hdr.Typeflag and the payload.
Member(name, typeflag, data) == [name |-> name, typeflag |-> typeflag, data |-> data]

\* md5 of a payload, in hex (its first two digits): distinct payloads of the
\* model have distinct digests.
Md5Sum(data) ==
    IF data = <<>> THEN << "d", "4" >>
    ELSE IF data = <<1>> THEN << "5", "5" >>
    ELSE IF data = <<2>> THEN << "9", "e" >>
    ELSE << "8", "6" >>

\* fetchFileDataFromTar on the members of an archive: fd[hdr.Name] is the
\* digest of the last regular member of that name; others are skipped.
FetchFileData(members) ==
    LET n   == Len(members)
        reg == {i \in 1..n : members[i].typeflag = "reg"}
    IN  [fname \in {members[i].name : i \in reg} |->
            Md5Sum(members[CHOOSE i \in reg :
                       /\ members[i].name = fname
                       /\ \A j \in reg : members[j].name = fname => j <= i].data)]

\* What "lxc export" can produce for the container: a directory d/ and the
\* regular files a and b, or the same with b rewritten and an empty file c.
Exports ==
    LET d == Member(<< "d", "/" >>, "dir", <<>>)
        a == Member(<< "a" >>, "reg", <<1>>)
    IN  { << d, a, Member(<< "b" >>, "reg", <<2>>) >>,
          << d, a, Member(<< "b" >>, "reg", <<3>>), Member(<< "c" >>, "reg", <<>>) >> }

\* A file: its kind, its content, whether its writer was closed (for an
\* archive: the tar and zstd trailers were written), and its modification day.
File(kind, data, closed, mtime) ==
    [kind |-> kind, data |-> data, closed |-> closed, mtime |-> mtime]

Exists(name) == name \in DOMAIN fs

\* The directory after name is created or overwritten with content c.
WriteFile(dir, name, c) ==
    [x \in DOMAIN dir \cup {name} |-> IF x = name THEN c ELSE dir[x]]

\* os.Remove: the directory without name; no error if it is absent.
RemoveFile(dir, name) == [x \in DOMAIN dir \ {name} |-> dir[x]]

\* The content of the ".removed" manifest: each path and a newline.
RemovedBytes(removed) ==
    Concat([i \in 1..Len(removed) |-> removed[i] \o << "\n" >>])

\* The status lines written to the log file.
NoChangesStatus == << "No changes", <<>>, <<>> >>

ChangedStatus(nChanged, nRemoved) ==
    << "files changed/added, removed", Decimal(nChanged), Decimal(nRemoved) >>

-----------------------------------------------------------------------------
(* The program *)

\* Days between two runs (cron: daily; the machine may be off for a while).
Jumps == {1, 28, 364}

\* The day before the first run: 2022-05-30.
StartDays == {149}

ContainerStates == {"RUNNING", "STOPPED"}

ProfileNames == {"default"}

NoName == << "", <<>>, "" >>

NoTable == [x \in {} |-> <<>>]

\* The destinations of the three createDeltaBackup calls, in call order.
Buckets(d) == << MonthDeltaName(d), WeekDeltaName(d), DayDeltaName(d) >>

LocalsAtStart ==
    /\ exportName' = NoName
    /\ doDelta' = FALSE
    /\ sums' = NoTable
    /\ quarterSums' = NoTable
    /\ filesChangedAdded' = {}
    /\ filesRemoved' = <<>>
    /\ cmds' = <<>>
    /\ calls' = <<>>
    /\ bucket' = 0
    /\ tarpos' = 0

\* Variables only the specifications of single functions use.
AuxVars == <<csvFile, loaded, date2, names>>

Init ==
    /\ now \in StartDays
    /\ runs = 0
    /\ failures = 0
    /\ pc = "idle"
    /\ fs = [x \in {} |-> <<>>]
    /\ cont = [state |-> "STOPPED", profileName |-> "default", profile |-> << "p" >>]
    /\ exportName = NoName
    /\ doDelta = FALSE
    /\ sums = NoTable
    /\ quarterSums = NoTable
    /\ filesChangedAdded = {}
    /\ filesRemoved = <<>>
    /\ cmds = <<>>
    /\ calls = <<>>
    /\ bucket = 0
    /\ tarpos = 0
    /\ csvFile = <<>>
    /\ loaded = [ok |-> FALSE, table |-> <<>>]
    /\ date2 = 0
    /\ names = <<>>

\* log.Fatalf: the process exits at once (no deferred call runs).
Fatal == pc' = "fatal" /\ failures' = failures + 1

\* An injected failure is allowed while the budget lasts.
MayFail(ok) == ok \/ failures < MaxFailures

\* A run starts: main up to the container loop, lines 754-826.  lxcList
\* reports the container's state and profile.
LxcList ==
    /\ pc \in {"idle", "exited", "fatal"}
    /\ runs < MaxRuns
    /\ \E jump \in Jumps : now' = now + jump
    /\ runs' = runs + 1
    /\ \E st \in ContainerStates, pn \in ProfileNames :
           cont' = [state |-> st, profileName |-> pn, profile |-> << "p" >>]
    /\ LocalsAtStart
    /\ pc' = "stop"
    /\ UNCHANGED <<failures, fs, AuxVars>>

\* Lines 828-830: lxcStop if the container was running.
LxcStop ==
    /\ pc = "stop"
    /\ IF cont.state = "RUNNING"
       THEN \E ok \in BOOLEAN :
               /\ MayFail(ok)
               /\ cmds' = Append(cmds, << "stop", ok >>)
               /\ IF ok THEN pc' = "export" /\ UNCHANGED failures ELSE Fatal
       ELSE pc' = "export" /\ UNCHANGED <<cmds, failures>>
    /\ UNCHANGED <<now, runs, fs, cont, exportName, doDelta, sums, quarterSums,
                   filesChangedAdded, filesRemoved, calls, bucket, tarpos, AuxVars>>

\* A faulty variant of lines 835-841: the export always goes to the quarter
\* name, also when the baseline exists.
LxcExportOverBaseline ==
    /\ pc = "export"
    /\ LET qBackup == QuarterName(now)
       IN  /\ exportName' = qBackup
           /\ doDelta' = Exists(qBackup)
           /\ \E ok \in BOOLEAN :
                 /\ MayFail(ok)
                 /\ cmds' = Append(cmds, << "export", ok >>)
                 /\ IF ok
                    THEN /\ \E members \in Exports :
                              fs' = WriteFile(fs, qBackup, File("tar", members, TRUE, now))
                         /\ pc' = "start"
                         /\ UNCHANGED failures
                    ELSE Fatal /\ UNCHANGED fs
    /\ UNCHANGED <<now, runs, cont, sums, quarterSums, filesChangedAdded,
                   filesRemoved, calls, bucket, tarpos, AuxVars>>

\* Lines 832-843: the export goes to the quarter name if no such file
\* exists, else to a temporary name (delta mode).  A failing export is
\* taken to leave no file.
LxcExport ==
    /\ pc = "export"
    /\ LET qBackup == QuarterName(now)
           target  == IF ~Exists(qBackup) THEN qBackup ELSE TemporaryName(runs)
       IN  /\ exportName' = target
           /\ doDelta' = Exists(qBackup)
           /\ \E ok \in BOOLEAN :
                 /\ MayFail(ok)
                 /\ cmds' = Append(cmds, << "export", ok >>)
                 /\ IF ok
                    THEN /\ \E members \in Exports :
                              fs' = WriteFile(fs, target, File("tar", members, TRUE, now))
                         /\ pc' = "start"
                         /\ UNCHANGED failures
                    ELSE Fatal /\ UNCHANGED fs
    /\ UNCHANGED <<now, runs, cont, sums, quarterSums, filesChangedAdded,
                   filesRemoved, calls, bucket, tarpos, AuxVars>>

\* Lines 845-847: lxcStart if the container was running.
LxcStart ==
    /\ pc = "start"
    /\ IF cont.state = "RUNNING"
       THEN \E ok \in BOOLEAN :
               /\ MayFail(ok)
               /\ cmds' = Append(cmds, << "start", ok >>)
               /\ IF ok THEN pc' = "fetch" /\ UNCHANGED failures ELSE Fatal
       ELSE pc' = "fetch" /\ UNCHANGED <<cmds, failures>>
    /\ UNCHANGED <<now, runs, fs, cont, exportName, doDelta, sums, quarterSums,
                   filesChangedAdded, filesRemoved, calls, bucket, tarpos, AuxVars>>

\* Line 849: sums := fetchFileDataFromTar(exportName); a read error is fatal.
FetchSums ==
    /\ pc = "fetch"
    /\ \E ok \in BOOLEAN :
          /\ MayFail(ok)
          /\ IF ok
             THEN /\ sums' = FetchFileData(fs[exportName].data)
                  /\ pc' = IF doDelta THEN "load" ELSE "save"
                  /\ UNCHANGED failures
             ELSE Fatal /\ UNCHANGED sums
    /\ UNCHANGED <<now, runs, fs, cont, exportName, doDelta, quarterSums,
                   filesChangedAdded, filesRemoved, cmds, calls, bucket, tarpos,
                   AuxVars>>

\* Lines 851-856, a new baseline: writeFileData(exportName+".md5sum", sums)
\* and writeProfile, then continue.  Either write may fail (log.Fatalf).
SaveBaseline ==
    /\ pc = "save"
    /\ \E failing \in {"none", "md5sum", "profile"} :
          /\ MayFail(failing = "none")
          /\ LET withSums == WriteFile(fs, Sibling(exportName, ".md5sum"),
                                 File("csv", FileDataBytes(sums), TRUE, now))
                 withProfile == WriteFile(withSums,
                                 Sibling(exportName, ProfileSuffix(cont.profileName)),
                                 File("profile", cont.profile, TRUE, now))
             IN  CASE failing = "none" ->
                        fs' = withProfile /\ pc' = "exited" /\ UNCHANGED failures
                   [] failing = "md5sum" -> Fatal /\ UNCHANGED fs
                   [] failing = "profile" -> Fatal /\ fs' = withSums
    /\ UNCHANGED <<now, runs, cont, exportName, doDelta, sums, quarterSums,
                   filesChangedAdded, filesRemoved, cmds, calls, bucket, tarpos,
                   AuxVars>>

\* Line 858: quarterSums := loadFileData(qBackup + ".md5sum"); fatal if the
\* file is missing or is no two-column CSV.
LoadQuarterSums ==
    /\ pc = "load"
    /\ LET fname == Sibling(QuarterName(now), ".md5sum")
       IN  IF Exists(fname)
           THEN \E checksums \in {FileDataTable(fs[fname].data)} :
                   IF checksums.ok
                   THEN quarterSums' = checksums.table /\ pc' = "diff"
                   ELSE pc' = "fatal" /\ UNCHANGED quarterSums
           ELSE pc' = "fatal" /\ UNCHANGED quarterSums
    /\ UNCHANGED <<now, runs, failures, fs, cont, exportName, doDelta, sums,
                   filesChangedAdded, filesRemoved, cmds, calls, bucket, tarpos,
                   AuxVars>>

\* Lines 860-879: the two loops of the diff.  filesRemoved is appended to in
\* the iteration order of the map.
DiffFiles ==
    /\ pc = "diff"
    /\ filesChangedAdded' = ChangedAddedKeys(quarterSums, sums)
    /\ filesRemoved' \in Orderings(RemovedSinceQuarter(quarterSums, sums))
    /\ pc' = "check"
    /\ UNCHANGED <<now, runs, failures, fs, cont, exportName, doDelta, sums,
                   quarterSums, cmds, calls, bucket, tarpos, AuxVars>>

\* Lines 881-884: nothing changed: the log is written (its error is
\* ignored), then continue.
NoChanges ==
    /\ pc = "check"
    /\ filesChangedAdded = {} /\ Len(filesRemoved) = 0
    /\ fs' = WriteFile(fs, LogName, File("log", NoChangesStatus, TRUE, now))
    /\ pc' = "exited"
    /\ UNCHANGED <<now, runs, failures, cont, exportName, doDelta, sums,
                   quarterSums, filesChangedAdded, filesRemoved, cmds, calls,
                   bucket, tarpos, AuxVars>>

\* A faulty variant of lines 881-893: the deltas are built even when nothing
\* changed.
EvictUnguarded ==
    /\ pc = "check"
    /\ fs' = RemoveFile(fs, DayDeltaName(now))
    /\ bucket' = 1
    /\ pc' = "cdb"
    /\ UNCHANGED <<now, runs, failures, cont, exportName, doDelta, sums,
                   quarterSums, filesChangedAdded, filesRemoved, cmds, calls,
                   tarpos, AuxVars>>

\* Lines 886-893: the evictions before the deltas are built.
Evict ==
    /\ pc = "check"
    /\ ~(filesChangedAdded = {} /\ Len(filesRemoved) = 0)
    /\ LET afterMonth == IF DayOf(now) = 1
                         THEN RemoveFile(fs, MonthDeltaName(now)) ELSE fs
           afterWeek  == IF Weekday(now) = 1
                         THEN RemoveFile(afterMonth, WeekDeltaName(now))
                         ELSE afterMonth
       IN  fs' = RemoveFile(afterWeek, DayDeltaName(now))
    /\ bucket' = 1
    /\ pc' = "cdb"
    /\ UNCHANGED <<now, runs, failures, cont, exportName, doDelta, sums,
                   quarterSums, filesChangedAdded, filesRemoved, cmds, calls,
                   tarpos, AuxVars>>

\* The return of a createDeltaBackup call: the next call, or line 900.
Return ==
    IF bucket = Len(Buckets(now))
    THEN pc' = "log" /\ UNCHANGED bucket
    ELSE pc' = "cdb" /\ bucket' = bucket + 1

\* A faulty variant of lines 592-595: the existence check comes after the
\* destination was opened with O_TRUNC.
CdbSkipTruncating ==
    /\ pc = "cdb"
    /\ Exists(Buckets(now)[bucket])
    /\ fs' = WriteFile(fs, Buckets(now)[bucket], File("tar", <<>>, FALSE, now))
    /\ calls' = Append(calls, [dest |-> Buckets(now)[bucket], result |-> "skipped"])
    /\ Return
    /\ UNCHANGED <<now, runs, failures, cont, exportName, doDelta, sums,
                   quarterSums, filesChangedAdded, filesRemoved, cmds, tarpos,
                   AuxVars>>

\* createDeltaBackup, lines 592-595: the destination exists, do nothing.
CdbSkip ==
    /\ pc = "cdb"
    /\ Exists(Buckets(now)[bucket])
    /\ calls' = Append(calls, [dest |-> Buckets(now)[bucket], result |-> "skipped"])
    /\ Return
    /\ UNCHANGED <<now, runs, failures, fs, cont, exportName, doDelta, sums,
                   quarterSums, filesChangedAdded, filesRemoved, cmds, tarpos,
                   AuxVars>>

\* createDeltaBackup, lines 597-632: the source is opened and the
\* destination is created empty; failing to is fatal.
CdbCreate ==
    /\ pc = "cdb"
    /\ ~Exists(Buckets(now)[bucket])
    /\ \E ok \in BOOLEAN :
          /\ MayFail(ok)
          /\ IF ok
             THEN /\ fs' = WriteFile(fs, Buckets(now)[bucket],
                                     File("tar", <<>>, FALSE, now))
                  /\ calls' = Append(calls, [dest |-> Buckets(now)[bucket],
                                             result |-> "building"])
                  /\ tarpos' = 0
                  /\ pc' = "copy"
                  /\ UNCHANGED failures
             ELSE Fatal /\ UNCHANGED <<fs, calls, tarpos>>
    /\ UNCHANGED <<now, runs, cont, exportName, doDelta, sums, quarterSums,
                   filesChangedAdded, filesRemoved, cmds, bucket, AuxVars>>

\* A faulty variant of lines 634-657: the test of line 641 is missing and
\* every member is copied.
CdbCopyEveryMember ==
    /\ pc = "copy"
    /\ tarpos < Len(fs[exportName].data)
    /\ fs' = WriteFile(fs, Buckets(now)[bucket],
                 File("tar", Append(fs[Buckets(now)[bucket]].data,
                                    fs[exportName].data[tarpos + 1]),
                      FALSE, now))
    /\ tarpos' = tarpos + 1
    /\ pc' = "copy"
    /\ UNCHANGED <<now, runs, failures, cont, exportName, doDelta, sums,
                   quarterSums, filesChangedAdded, filesRemoved, cmds, calls,
                   bucket, AuxVars>>

\* createDeltaBackup, lines 634-657, one turn of the loop: the next member
\* is copied (header and payload) if its name is a key of filesChanged, and
\* skipped if not.  A read or write error, or a short read, is fatal.
CdbCopy ==
    /\ pc = "copy"
    /\ tarpos < Len(fs[exportName].data)
    /\ LET hdr  == fs[exportName].data[tarpos + 1]
           dest == Buckets(now)[bucket]
       IN  \E ok \in BOOLEAN :
              /\ MayFail(ok)
              /\ IF ok
                 THEN /\ fs' = IF hdr.name \in filesChangedAdded
                               THEN WriteFile(fs, dest,
                                        File("tar", Append(fs[dest].data, hdr),
                                             FALSE, now))
                               ELSE fs
                      /\ tarpos' = tarpos + 1
                      /\ pc' = "copy"
                      /\ UNCHANGED failures
                 ELSE Fatal /\ UNCHANGED <<fs, tarpos>>
    /\ UNCHANGED <<now, runs, cont, exportName, doDelta, sums, quarterSums,
                   filesChangedAdded, filesRemoved, cmds, calls, bucket, AuxVars>>

\* createDeltaBackup, lines 636-637 and 659-668: at io.EOF the ".removed"
\* manifest and the profile sidecar are written, then the deferred Close
\* calls finish the archive.  A failing write is fatal and leaves the
\* archive unfinished.
CdbFinish ==
    /\ pc = "copy"
    /\ tarpos = Len(fs[exportName].data)
    /\ LET dest == Buckets(now)[bucket]
           withRemoved == WriteFile(fs, Sibling(dest, ".removed"),
                              File("removed", RemovedBytes(filesRemoved), TRUE, now))
           withProfile == WriteFile(withRemoved,
                              Sibling(dest, ProfileSuffix(cont.profileName)),
                              File("profile", cont.profile, TRUE, now))
       IN  \E failing \in {"none", "removed", "profile"} :
              /\ MayFail(failing = "none")
              /\ CASE failing = "none" ->
                        /\ fs' = WriteFile(withProfile, dest,
                                     File("tar", fs[dest].data, TRUE, now))
                        /\ calls' = [calls EXCEPT ![Len(calls)].result = "built"]
                        /\ Return
                        /\ UNCHANGED failures
                   [] failing = "removed" ->
                        Fatal /\ UNCHANGED <<fs, calls, bucket>>
                   [] failing = "profile" ->
                        Fatal /\ fs' = withRemoved /\ UNCHANGED <<calls, bucket>>
    /\ UNCHANGED <<now, runs, cont, exportName, doDelta, sums, quarterSums,
                   filesChangedAdded, filesRemoved, cmds, tarpos, AuxVars>>

\* Lines 900-904: the status line is written to the log (fatal on error)
\* and the temporary export is removed.
WriteLog ==
    /\ pc = "log"
    /\ \E ok \in BOOLEAN :
          /\ MayFail(ok)
          /\ IF ok
             THEN /\ fs' = RemoveFile(
                             WriteFile(fs, LogName,
                                 File("log", ChangedStatus(Cardinality(filesChangedAdded),
                                                            Len(filesRemoved)),
                                      TRUE, now)),
                             exportName)
                  /\ pc' = "exited"
                  /\ UNCHANGED failures
             ELSE Fatal /\ UNCHANGED fs
    /\ UNCHANGED <<now, runs, cont, exportName, doDelta, sums, quarterSums,
                   filesChangedAdded, filesRemoved, cmds, calls, bucket, tarpos,
                   AuxVars>>

Next ==
    \/ LxcList
    \/ LxcStop
    \/ LxcExport
    \/ LxcStart
    \/ FetchSums
    \/ SaveBaseline
    \/ LoadQuarterSums
    \/ DiffFiles
    \/ NoChanges
    \/ Evict
    \/ CdbSkip
    \/ CdbCreate
    \/ CdbCopy
    \/ CdbFinish
    \/ WriteLog

\* Runs of the program on one container over increasing dates.
Spec == Init /\ [][Next]_vars

-----------------------------------------------------------------------------
(* The diff of main on arbitrary tables *)

\* The digests of the model's payloads.
Digests == {Md5Sum(<<>>), Md5Sum(<<1>>)}

\* All fingerprint tables over the paths a, b, c, d.
DiffTables ==
    UNION {[D -> Digests] :
               D \in SUBSET {<< "a" >>, << "b" >>, << "c" >>, << "d" >>}}

\* The values of the variables a specification does not use.
Unused(vs) ==
    /\ "now" \in vs => now = 0
    /\ "sums" \in vs => sums = NoTable
    /\ "quarterSums" \in vs => quarterSums = NoTable
    /\ "csv" \in vs => csvFile = <<>> /\ loaded = [ok |-> FALSE, table |-> <<>>]
    /\ "names" \in vs => date2 = 0 /\ names = <<>>
    /\ runs = 0
    /\ failures = 0
    /\ fs = [x \in {} |-> <<>>]
    /\ cont = [state |-> "STOPPED", profileName |-> "default", profile |-> << "p" >>]
    /\ exportName = NoName
    /\ doDelta = FALSE
    /\ filesChangedAdded = {}
    /\ filesRemoved = <<>>
    /\ cmds = <<>>
    /\ calls = <<>>
    /\ bucket = 0
    /\ tarpos = 0

InitDiff ==
    /\ quarterSums \in DiffTables
    /\ sums \in DiffTables
    /\ pc = "diff"
    /\ Unused({"now", "csv", "names"})

NextDiff == DiffFiles

\* main's diff (lines 860-879) applied to any baseline and current table.
SpecDiff == InitDiff /\ [][NextDiff]_vars

-----------------------------------------------------------------------------
(* writeFileData and loadFileData on arbitrary tables *)

\* Characters of the member paths tried: a letter and the characters the
\* CSV encoding treats specially.
PathChars == {"a", " ", ",", "\"", "\r", "\n"}

RECURSIVE StringsUpTo(_)
StringsUpTo(n) ==
    IF n = 0 THEN {<<>>}
    ELSE LET prev == StringsUpTo(n - 1)
         IN  prev \cup {Append(str, c) : str \in prev, c \in PathChars}

RECURSIVE DomainsUpTo(_)
\* The sets of at most n paths.
DomainsUpTo(n) ==
    IF n = 0 THEN {{}}
    ELSE LET prev == DomainsUpTo(n - 1)
         IN  prev \cup {D \cup {path} : D \in prev, path \in StringsUpTo(MaxPathLen)}

\* Fingerprint tables with unique paths (a table is a map).
CsvTables == UNION {[D -> Digests] : D \in DomainsUpTo(MaxTableSize)}

InitCsv ==
    /\ sums \in CsvTables
    /\ pc = "write"
    /\ Unused({"now", "quarterSums", "csv", "names"})

\* writeFileData(out, fd), lines 676-699: the bytes of the file written.
WriteFileData ==
    /\ pc = "write"
    /\ csvFile' = FileDataBytes(sums)
    /\ pc' = "read"
    /\ UNCHANGED <<now, runs, failures, fs, cont, exportName, doDelta, sums,
                   quarterSums, filesChangedAdded, filesRemoved, cmds, calls,
                   bucket, tarpos, loaded, date2, names>>

\* loadFileData(fname), lines 701-720, on the file just written.
LoadFileData ==
    /\ pc = "read"
    /\ loaded' = FileDataTable(csvFile)
    /\ pc' = "loaded"
    /\ UNCHANGED <<now, runs, failures, fs, cont, exportName, doDelta, sums,
                   quarterSums, filesChangedAdded, filesRemoved, cmds, calls,
                   bucket, tarpos, csvFile, date2, names>>

NextCsv == WriteFileData \/ LoadFileData

\* A table is written with writeFileData and read back with loadFileData.
SpecCsv == InitCsv /\ [][NextCsv]_vars

-----------------------------------------------------------------------------
(* The quarter name of two dates *)

InitNames ==
    /\ now \in 0..MaxDay
    /\ date2 \in now..MaxDay
    /\ names = <<>>
    /\ pc = "names"
    /\ Unused({"sums", "quarterSums", "csv"})

\* Line 813 for a run at each of the two dates.
ComputeNames ==
    /\ pc = "names"
    /\ names' = << QuarterName(now), QuarterName(date2) >>
    /\ pc' = "named"
    /\ UNCHANGED <<now, runs, failures, fs, cont, exportName, doDelta, sums,
                   quarterSums, filesChangedAdded, filesRemoved, cmds, calls,
                   bucket, tarpos, csvFile, loaded, date2>>

NextNames == ComputeNames

\* The baseline names of runs at two dates.
SpecNames == InitNames /\ [][NextNames]_vars

-----------------------------------------------------------------------------
(* Properties *)

\* The paths that ranging over filesRemoved yields.
RemovedPaths == Range(filesRemoved)

\* C1: after the diff of main, filesChangedAdded holds exactly the paths of
\* the current table that are absent from the baseline table or have another
\* digest there, filesRemoved lists exactly the paths of the baseline table
\* that are absent from the current one (each once), the two are disjoint,
\* and no path with equal digests in both tables is in either.
C1_DiffCorrect ==
    pc = "check" =>
        /\ filesChangedAdded =
               {path \in DOMAIN sums :
                    path \notin DOMAIN quarterSums \/ quarterSums[path] # sums[path]}
        /\ RemovedPaths = DOMAIN quarterSums \ DOMAIN sums
        /\ Len(filesRemoved) = Cardinality(RemovedPaths)
        /\ filesChangedAdded \cap RemovedPaths = {}
        /\ \A path \in DOMAIN sums \cap DOMAIN quarterSums :
               sums[path] = quarterSums[path] =>
                   path \notin filesChangedAdded \cup RemovedPaths

\* A diff with a changed, an added, a removed and an unchanged path.
C1_Witness ==
    /\ pc = "check"
    /\ \E path \in filesChangedAdded : path \in DOMAIN quarterSums
    /\ \E path \in filesChangedAdded : path \notin DOMAIN quarterSums
    /\ filesRemoved # <<>>
    /\ \E path \in DOMAIN sums \cap DOMAIN quarterSums :
           sums[path] = quarterSums[path]

\* The createDeltaBackup calls of the current run that built their archive.
Built == {i \in 1..Len(calls) : calls[i].result = "built"}

\* The createDeltaBackup calls of the current run that found their
\* destination existing.
Skipped == {i \in 1..Len(calls) : calls[i].result = "skipped"}

InChangedAdded(member) == member.name \in filesChangedAdded

\* C2: when createDeltaBackup was called with a destination that did not
\* exist and has returned, the destination is a finished archive holding
\* exactly the members of the source archive whose paths are in
\* filesChangedAdded, in the source's order, each with the source's header
\* and payload.
C2_DeltaMinimal ==
    pc \in {"cdb", "copy", "log"} =>
        \A i \in Built :
            /\ fs[calls[i].dest].closed
            /\ fs[calls[i].dest].data = SelectSeq(fs[exportName].data, InChangedAdded)

\* All three deltas were built, from an export of which some members were
\* copied and some were not.
C2_Witness ==
    /\ pc = "log"
    /\ Built = {1, 2, 3}
    /\ fs[calls[1].dest].data # <<>>
    /\ Len(fs[calls[1].dest].data) < Len(fs[exportName].data)

\* C3: a createDeltaBackup call whose destination exists changes no file
\* (not the destination, not a ".removed" manifest, not a profile sidecar)
\* and does not read the source archive; the call only returns.
C3_ExistingDestinationNoOp ==
    [][(pc = "cdb" /\ Exists(Buckets(now)[bucket])) =>
          /\ fs' = fs
          /\ tarpos' = tarpos
          /\ pc' \in {"cdb", "log"}
          /\ calls'[Len(calls')] = [dest |-> Buckets(now)[bucket], result |-> "skipped"]
      ]_vars

\* A call found its destination existing, after another call of the same run
\* built its archive.
C3_Witness == Skipped # {} /\ Built # {}

\* The delta archives and their siblings in the directory.
DeltaFiles == {name \in DOMAIN fs : name[1] \in {"M", "WN", "WD"}}

\* C9: a delta-mode run whose current fingerprint table equals the
\* baseline's ends without any createDeltaBackup call, without any delta
\* archive, ".removed" manifest or profile sidecar written in this run, and
\* with the log holding the "No changes" status of this run.
C9_NoChangesNoDelta ==
    (pc = "exited" /\ doDelta /\ sums = quarterSums) =>
        /\ calls = <<>>
        /\ \A name \in DeltaFiles : fs[name].mtime < now
        /\ Exists(LogName)
        /\ fs[LogName].data = NoChangesStatus
        /\ fs[LogName].mtime = now

\* A run that found no changes has ended, with deltas of earlier runs in the
\* directory.
C9_Witness ==
    /\ pc = "exited" /\ doDelta /\ sums = quarterSums
    /\ DeltaFiles # {}

\* C4: a delta-mode run on the first day of a month leaves no month delta
\* of an earlier run behind, whether or not it found changes: a month delta
\* that exists when the run ends was built by this run.  (Stated for
\* behaviours in which no step has failed.)
C4_MonthEvictedOnFirstDay ==
    (/\ pc = "exited" /\ doDelta /\ DayOf(now) = 1
     /\ Exists(MonthDeltaName(now))
     /\ failures = 0) =>
        fs[MonthDeltaName(now)].mtime = now

\* C5: no createDeltaBackup call skips, through the existence check, a
\* destination that an aborted call left unfinished.
C5_NoUnfinishedDeltaSkipped ==
    \A i \in Skipped : fs[calls[i].dest].closed

\* The day number of the Monday of d's ISO week.
MondayOf(d) == d - ((Weekday(d) + 6) % 7)

\* C6: when a run that found changes has made its three createDeltaBackup
\* calls, each bucket holds a delta of the current period: the month delta
\* was written in this month of this year, the week delta in this ISO week,
\* the day delta today.  (Stated for behaviours in which no step has failed.)
C6_BucketsOfCurrentPeriod ==
    (pc = "log" /\ failures = 0) =>
        /\ YearOf(fs[MonthDeltaName(now)].mtime) = YearOf(now)
        /\ MonthOf(fs[MonthDeltaName(now)].mtime) = MonthOf(now)
        /\ MondayOf(fs[WeekDeltaName(now)].mtime) = MondayOf(now)
        /\ fs[DayDeltaName(now)].mtime = now

\* The calendar quarter of a date, 0 to 3.
CalendarQuarter(d) == (MonthOf(d) - 1) \div 3

\* C7: the quarter names of two dates are equal exactly if the dates lie in
\* the same calendar quarter of the same year.
C7_QuarterKey ==
    pc = "named" =>
        ((names[1] = names[2]) <=>
            (YearOf(now) = YearOf(date2) /\ CalendarQuarter(now) = CalendarQuarter(date2)))

\* The positions in cmds of the lxc commands named cmd.
Issued(cmd) == {i \in 1..Len(cmds) : cmds[i][1] = cmd}

\* C8: a running container is stopped before its export starts; once the
\* program has stopped a container, the run does not end without "lxc start"
\* issued after the export; a container listed as stopped is neither stopped
\* nor started.
C8_StopExportStart ==
    /\ cont.state = "RUNNING" =>
           \A e \in Issued("export") :
               \E i \in Issued("stop") : i < e /\ cmds[i][2]
    /\ (pc \in {"exited", "fatal"} /\ \E i \in Issued("stop") : cmds[i][2]) =>
           \E e \in Issued("export") : \E i \in Issued("start") : e < i
    /\ cont.state = "STOPPED" => Issued("stop") \cup Issued("start") = {}

\* C10: loadFileData on the file writeFileData wrote returns the table
\* written, and the file lists the records in ascending path order.
C10_RoundTrip ==
    /\ pc = "loaded" => loaded.ok /\ loaded.table = sums
    /\ pc \in {"read", "loaded"} =>
           \E order \in Orderings(DOMAIN sums) :
               /\ \A i \in 1..(Len(order) - 1) : StrLess(order[i], order[i + 1])
               /\ csvFile = CsvWriteAll([i \in 1..Len(order) |->
                                            << order[i], sums[order[i]] >>])

\* The files of directory dir named archive or archive plus a suffix.
FilesOf(dir, archive) ==
    {Sibling(archive, suffix) :
         suffix \in {name[3] : name \in DOMAIN dir}} \cap DOMAIN dir

\* The baseline archive of d's quarter and its siblings in directory dir.
QuarterFiles(dir, d) == FilesOf(dir, QuarterName(d))

\* C11: in a run that found the quarter baseline existing (delta mode), no
\* step creates, overwrites or deletes the baseline archive, its ".md5sum"
\* file or its profile sidecar.
C11_BaselineUntouched ==
    [][(/\ pc \notin {"idle", "exited", "fatal"}
        /\ doDelta \/ (pc = "export" /\ Exists(QuarterName(now)))) =>
          /\ QuarterFiles(fs', now) = QuarterFiles(fs, now)
          /\ \A name \in QuarterFiles(fs, now) : fs'[name] = fs[name]
      ]_vars

\* A delta-mode run has built deltas, written the log and removed its
\* temporary export, next to a baseline with both siblings.
C11_Witness ==
    /\ pc = "exited" /\ doDelta /\ Built # {}
    /\ ~Exists(exportName)
    /\ Cardinality(QuarterFiles(fs, now)) = 3

\* The buckets that lines 887-893 evict on day d.
Evicted(d) ==
    (IF DayOf(d) = 1 THEN {MonthDeltaName(d)} ELSE {})
        \cup (IF Weekday(d) = 1 THEN {WeekDeltaName(d)} ELSE {})
        \cup {DayDeltaName(d)}

\* C12: right after the evictions and before the first createDeltaBackup
\* call, neither the archive nor the ".removed" manifest nor a profile
\* sidecar of an evicted bucket exists; and when the three calls have
\* returned, every file next to an archive built in this run was written in
\* this run.  (Stated for behaviours in which no step has failed.)
C12_EvictionRemovesSiblings ==
    /\ (pc = "cdb" /\ calls = <<>> /\ failures = 0) =>
           \A dest \in Evicted(now) : FilesOf(fs, dest) = {}
    /\ (pc = "log" /\ failures = 0) =>
           \A i \in Built : \A name \in FilesOf(fs, calls[i].dest) :
               fs[name].mtime = now

\* C13: when a run starts, a quarter baseline archive that exists has its
\* ".md5sum" file, whatever step an earlier run was aborted at; so a run in
\* delta mode finds the file that line 858 loads.
C13_BaselineHasFingerprints ==
    /\ (pc = "stop" /\ Exists(QuarterName(now))) =>
           Exists(Sibling(QuarterName(now), ".md5sum"))
    /\ (pc = "load" /\ doDelta) =>
           Exists(Sibling(QuarterName(now), ".md5sum"))

\* The temporary exports in the directory.
TemporaryFiles == {name \in DOMAIN fs : name[1] = TemporaryName(0)[1]}

\* C14: when the processing of the container has ended without a fatal
\* error, in this run or an earlier one, no temporary export is left in the
\* directory, also when the run found no changes.
C14_TemporaryExportRemoved ==
    (pc = "exited" /\ failures = 0) => TemporaryFiles = {}

====
